---- MODULE Spec2Model ----
(***************************************************************************)
(* Model of hack/scripts/aws/manual_account_resuse.py: the account cleanup *)
(* script.  main() assumes the OrganizationAccountAccessRole of the target *)
(* account and then deletes S3 buckets, EBS snapshots, EBS volumes and     *)
(* Route53 hosted zones (purging the record sets of a zone first).         *)
(*                                                                         *)
(* The script is sequential.  One step of the model is one cloud call      *)
(* together with the code that handles its response, up to the next cloud  *)
(* call.  The responses of the cloud are the inputs: a call returns a      *)
(* response (with an HTTP status code, and for a listing a page and the    *)
(* presence of a continuation token) or raises.  The script has no         *)
(* try/except, so a raised exception unwinds through main().               *)
(***************************************************************************)
EXTENDS Integers, Sequences, FiniteSets, TLC

(***************************************************************************)
(* Bounds of the model: the account holds at most MaxItems buckets,        *)
(* MaxItems snapshots, MaxItems volumes and MaxZones hosted zones, a zone  *)
(* holds at most MaxRecords record sets, and a listing returns them in at  *)
(* most MaxPages (MaxZonePages, MaxRecordPages) pages.                     *)
(***************************************************************************)
MaxPages == 2
MaxItems == 2
MaxZonePages == 2
MaxZones == 2
MaxRecordPages == 2
MaxRecords == 2
MaxRecordSetCount == 3

(***************************************************************************)
(* Values of the program and of the cloud's responses.                     *)
(***************************************************************************)
HTTP_OK == 200
StatusCodes == {200, 500}
RecordTypes == {"NS", "SOA", "A"}
DefaultRecordSets == 2
RecordSetCounts == DefaultRecordSets..MaxRecordSetCount

InitialProfile == "osd-staging-1"
RoleSessionName == "SREAdminReuseCleanup"

BucketApis == {"s3.list_buckets", "s3.delete_bucket"}
SnapshotApis == {"ec2.describe_snapshots", "ec2.delete_snapshot"}
VolumeApis == {"ec2.describe_volumes", "ec2.delete_volume"}
ZoneApis == {"route53.list_hosted_zones", "route53.list_resource_record_sets",
             "route53.change_resource_record_sets", "route53.delete_hosted_zone"}
ResourceApis == BucketApis \cup SnapshotApis \cup VolumeApis \cup ZoneApis

(* The part of the script an API belongs to: one of the two calls of
   assume_role(), or one of the cleaners. *)
FamilyOf(api) ==
    CASE api = "sts.get_caller_identity" -> "caller_identity"
      [] api = "sts.assume_role" -> "assume_role"
      [] api \in BucketApis -> "s3"
      [] api \in SnapshotApis -> "snapshots"
      [] api \in VolumeApis -> "volumes"
      [] api \in ZoneApis -> "zones"

(* A response of the cloud: returned with a status code, or raised. *)
Returned(s) == [raised |-> FALSE, status |-> s]
Raised == [raised |-> TRUE, status |-> 0]
DeleteResponses == {Returned(s) : s \in StatusCodes} \cup {Raised}
ListResponses == {Returned(HTTP_OK), Raised}

(* The record of one cloud call: the API, its argument, the session that made
   it and the response. *)
Call(api, target, sess, r) ==
    [api |-> api, target |-> target, session |-> sess,
     raised |-> r.raised, status |-> r.status]
NoCall == [api |-> "none", target |-> <<>>, session |-> "none",
           raised |-> FALSE, status |-> 0]

(* A printed line. *)
Line(text, arg) == [text |-> text, arg |-> arg]

VARIABLES
    pc,              \* position of the script
    verbose,         \* args.verbose
    session,         \* the session returned by assume_role ("none" before)
    issued,          \* the parts of the script that have made a cloud call so far
    lastCall,        \* the most recent cloud call and its response
    summaries,       \* per cleaner, the number of summary lines printed in the run
    nonempty,        \* some listing of the run has returned an item
    bucket_count, snapshot_count, volume_count, zone_count,
    more,            \* the page iterator of the running cleaner has a next page
    fetched,         \* the page numbers the running cleaner has requested, in order
    pages,           \* per page the running cleaner's iterator has yielded, its item ids
    todo,            \* the items of the current page not yet visited
    deletes,         \* the delete calls of the running cleaner, in order
    out,             \* the lines printed by the running cleaner, in order
    zone,            \* the hosted zone the zone cleaner is visiting
    rr_more,         \* the record-set iterator of zone has a next page
    rr_listed,       \* the number of list_resource_record_sets calls made for zone
    rr_seen,         \* the number of record sets of zone listed so far
    rr_submitted,    \* the number of change_resource_record_sets calls made for zone
    rr_failed,       \* the number of those that returned a failure status
    rr_deleted,      \* the number of entries of those that returned success
    record_set_page, \* the page of record sets of zone given to the last batch
    change_batch,    \* change_batch['Changes'] built from record_set_page
    rr_out           \* the lines printed by create_and_submit_change_batch for
                     \* record_set_page, in order

vars == <<pc, verbose, session, issued, lastCall, summaries, nonempty,
          bucket_count, snapshot_count, volume_count, zone_count,
          more, fetched, pages, todo, deletes, out,
          zone, rr_more, rr_listed, rr_seen, rr_submitted, rr_failed, rr_deleted,
          record_set_page, change_batch, rr_out>>

counts == <<bucket_count, snapshot_count, volume_count, zone_count>>
locals == <<more, fetched, pages, todo, deletes, out>>
purger == <<zone, rr_more, rr_listed, rr_seen, rr_submitted, rr_failed, rr_deleted,
          record_set_page, change_batch, rr_out>>

(***************************************************************************)
(* Control flow.                                                           *)
(***************************************************************************)
Cleaners == {"s3", "snapshots", "volumes", "zones"}

(* main() calls the cleaners in this order (get_and_delete_volumes_and_snapshots
   runs the snapshots before the volumes).  The _volumes_first variant, like
   the other suffixed variants below, is a faulty version of the definition
   that follows it, kept to show that the properties tell the two apart. *)
MainSequence_volumes_first == <<"s3", "volumes", "snapshots", "zones">>
MainSequence == <<"s3", "snapshots", "volumes", "zones">>

EntryOf(c) == [stage |-> "entry", cleaner |-> c]
At(stage, c) == [stage |-> stage, cleaner |-> c]
Done == [stage |-> "done", cleaner |-> "main"]
Aborted == [stage |-> "aborted", cleaner |-> "main"]
Start == [stage |-> "start", cleaner |-> "main"]
Assume == [stage |-> "assume_role", cleaner |-> "main"]

IndexOf(c) == CHOOSE i \in 1..Len(MainSequence) : MainSequence[i] = c

(* Where control goes when cleaner c returns. *)
After_exits_after_buckets(c) ==
    IF c = "s3" THEN Done
    ELSE IF IndexOf(c) < Len(MainSequence)
    THEN EntryOf(MainSequence[IndexOf(c) + 1])
    ELSE Done
After(c) ==
    IF IndexOf(c) < Len(MainSequence)
    THEN EntryOf(MainSequence[IndexOf(c) + 1])
    ELSE Done

(* Where control goes when a cloud call made at position p raises: no frame
   of the script has a handler, the interpreter ends the process. *)
Unhandled_assume_caught(p) ==
    IF p = Assume THEN EntryOf(MainSequence[1]) ELSE Aborted
Unhandled_listing_isolated(p) ==
    IF p.stage = "page" THEN After(p.cleaner) ELSE Aborted
Unhandled_delete_caught(p) ==
    IF p.stage \in {"item", "delete"} THEN p ELSE Aborted
Unhandled(p) == Aborted

(* if response['ResponseMetadata']['HTTPStatusCode'] != 200: failed *)
Failed_never(status) == FALSE
Failed(status) == status # HTTP_OK

(* The tally after a delete call that returned status. *)
Tally_counts_all(n, status) == n + 1
Tally(n, status) == IF Failed(status) THEN n ELSE n + 1

(* The items of the page left to visit after the delete call of the first
   returned status: the for loop goes on to the next item. *)
Remaining_halts_on_failure(items, status) ==
    IF Failed(status) THEN <<>> ELSE Tail(items)
Remaining(items, status) == Tail(items)

(* A for loop over a page iterator is left when the iterator has no next
   page. *)
Exhausted_early(m) == TRUE
Exhausted(m) == ~m

(* The position after get_and_delete_hostedzone_recordsets returns, with
   failed batches of the zone that returned a failure status: line 206. *)
AfterPurge_skips_delete(failed) == IF failed > 0 THEN "item" ELSE "delete"
AfterPurge(failed) == "delete"

(***************************************************************************)
(* Pages of a listing.  An item is known by the page and the position the  *)
(* listing returned it at.                                                 *)
(***************************************************************************)
ItemPage(p, n) == [k \in 1..n |-> [Id |-> <<p, k>>]]
RECURSIVE Listed(_)
Listed(ps) == IF ps = <<>> THEN 0 ELSE Len(Head(ps)) + Listed(Tail(ps))

Ids(page) == [k \in 1..Len(page) |-> page[k].Id]
NoZone == [Id |-> <<>>, ResourceRecordSetCount |-> 0]

Init ==
    /\ pc = Start
    /\ verbose \in BOOLEAN
    /\ session = "none"
    /\ issued = {}
    /\ lastCall = NoCall
    /\ summaries = [c \in Cleaners |-> 0]
    /\ nonempty = FALSE
    /\ bucket_count = 0 /\ snapshot_count = 0 /\ volume_count = 0 /\ zone_count = 0
    /\ more = FALSE
    /\ fetched = <<>>
    /\ pages = <<>>
    /\ todo = <<>>
    /\ deletes = <<>>
    /\ out = <<>>
    /\ zone = NoZone
    /\ rr_more = FALSE
    /\ rr_listed = 0
    /\ rr_seen = 0
    /\ rr_submitted = 0
    /\ rr_failed = 0
    /\ rr_deleted = 0
    /\ record_set_page = <<>>
    /\ change_batch = <<>>
    /\ rr_out = <<>>

(* The call is recorded, whatever its response. *)
Issue(api, target, sess, r) ==
    /\ lastCall' = Call(api, target, sess, r)
    /\ issued' = issued \cup {FamilyOf(api)}

(***************************************************************************)
(* assume_role(), lines 14-38, called from main() line 222.                *)
(***************************************************************************)
(* The session that assume_role returns: built from the credentials of the
   AssumeRole response, lines 30-38, not the session of the profile. *)
ScopedSession_keeps_profile(initial_session) == initial_session
ScopedSession(initial_session) == RoleSessionName

get_caller_identity ==
    /\ pc = Start
    /\ verbose
    /\ \E r \in ListResponses :
        /\ Issue("sts.get_caller_identity", <<>>, InitialProfile, r)
        /\ pc' = IF r.raised THEN Unhandled(pc) ELSE Assume
    /\ UNCHANGED <<verbose, session, summaries, nonempty, counts, locals, purger>>

skip_caller_identity ==
    /\ pc = Start
    /\ ~verbose
    /\ pc' = Assume
    /\ UNCHANGED <<verbose, session, issued, lastCall, summaries, nonempty, counts, locals, purger>>

assume_role ==
    /\ pc = Assume
    /\ \E r \in ListResponses :
        /\ Issue("sts.assume_role", <<>>, InitialProfile, r)
        /\ IF r.raised
           THEN /\ pc' = Unhandled(pc)
                /\ UNCHANGED session
           ELSE /\ pc' = EntryOf(MainSequence[1])
                /\ session' = ScopedSession(InitialProfile)
    /\ UNCHANGED <<verbose, summaries, nonempty, counts, locals, purger>>

(***************************************************************************)
(* The item cleaners: get_and_delete_s3_buckets, get_and_delete_snapshots, *)
(* get_and_delete_ebs_volumes.                                             *)
(***************************************************************************)
(* Function entry: the tally is 0 and the listing starts at its first page. *)
Enter(c) ==
    /\ pc = EntryOf(c)
    /\ pc' = At("page", c)
    /\ more' = TRUE
    /\ fetched' = <<>>
    /\ pages' = <<>>
    /\ todo' = <<>>
    /\ deletes' = <<>>
    /\ out' = <<>>
    /\ UNCHANGED <<verbose, session, issued, lastCall, summaries, nonempty>>

(* The page a page iterator requests next, after it has yielded pages ps: it
   follows the continuation token of the last page. *)
NextPageNo_restarts(ps) == 1
NextPageNo(ps) == Len(ps) + 1

(* The listing call for the next page.  maxp bounds the number of pages;
   pageset is the set of pages the call can return. *)
ListPage(c, api, maxp, pageset) ==
    /\ pc = At("page", c)
    /\ more
    /\ \E r \in ListResponses :
        /\ Issue(api, <<NextPageNo(pages)>>, session, r)
        /\ fetched' = Append(fetched, NextPageNo(pages))
        /\ IF r.raised
           THEN /\ pc' = Unhandled(pc)
                /\ UNCHANGED <<more, pages, todo, nonempty>>
           ELSE \E page \in pageset, m \in BOOLEAN :
                /\ m => Len(pages) + 1 < maxp
                /\ more' = m
                /\ pages' = Append(pages, Ids(page))
                /\ todo' = page
                /\ nonempty' = (nonempty \/ page # <<>>)
                /\ pc' = IF page = <<>> THEN At("page", c) ELSE At("item", c)
    /\ UNCHANGED <<verbose, session, summaries, counts, deletes, out>>

(* The delete call for the next item of the page, issued at position stage,
   and the handling of its response. *)
DeleteItem(c, stage, api, failtext, r) ==
    /\ pc = At(stage, c)
    /\ todo # <<>>
    /\ Issue(api, Head(todo).Id, session, r)
    /\ deletes' = Append(deletes, Call(api, Head(todo).Id, session, r))
    /\ IF r.raised
       THEN /\ pc' = Unhandled(pc)
            /\ UNCHANGED <<todo, out>>
       ELSE /\ out' = IF Failed(r.status)
                      THEN Append(out, Line(failtext, Head(todo).Id))
                      ELSE out
            /\ todo' = Remaining(todo, r.status)
            /\ pc' = IF Remaining(todo, r.status) = <<>>
                     THEN At("page", c)
                     ELSE At("item", c)
    /\ UNCHANGED <<verbose, session, summaries, nonempty, more, fetched, pages>>

(* The summary line of a cleaner: print(f"... deleted: {count}"). *)
Summary_off_by_one(text, count) == Line(text, <<count + 1>>)
Summary(text, count) == Line(text, <<count>>)

(* The listing is exhausted: the summary line is printed and the cleaner
   returns. *)
Finish(c, text, count) ==
    /\ pc = At("page", c)
    /\ Exhausted(more)
    /\ out' = Append(out, Summary(text, count))
    /\ summaries' = [summaries EXCEPT ![c] = @ + 1]
    /\ UNCHANGED nonempty
    /\ pc' = After(c)
    /\ UNCHANGED <<verbose, session, issued, lastCall, more, fetched, pages, todo, deletes>>

(* get_and_delete_s3_buckets, lines 59-80.  list_buckets does not paginate. *)
enter_s3_buckets ==
    /\ Enter("s3")
    /\ bucket_count' = 0
    /\ UNCHANGED <<snapshot_count, volume_count, zone_count>>
    /\ UNCHANGED purger

(* The pages that can come p-th when seen items came before. *)
BucketPages(p, seen) == {ItemPage(p, n) : n \in 0..(MaxItems - seen)}

list_buckets ==
    /\ ListPage("s3", "s3.list_buckets", 1, BucketPages(NextPageNo(pages), Listed(pages)))
    /\ UNCHANGED <<counts, purger>>

delete_bucket ==
    /\ \E r \in DeleteResponses :
        /\ DeleteItem("s3", "item", "s3.delete_bucket", "Failed deleting S3 Bucket", r)
        /\ bucket_count' = IF r.raised THEN bucket_count ELSE Tally(bucket_count, r.status)
    /\ UNCHANGED <<snapshot_count, volume_count, zone_count>>
    /\ UNCHANGED purger

finish_s3_buckets ==
    /\ Finish("s3", "S3 Buckets deleted", bucket_count)
    /\ bucket_count' = 0
    /\ UNCHANGED <<snapshot_count, volume_count, zone_count>>
    /\ UNCHANGED purger

(* get_and_delete_snapshots, lines 104-132. *)
enter_snapshots ==
    /\ Enter("snapshots")
    /\ snapshot_count' = 0
    /\ UNCHANGED <<bucket_count, volume_count, zone_count>>
    /\ UNCHANGED purger

SnapshotPages(p, seen) == {ItemPage(p, n) : n \in 0..(MaxItems - seen)}

describe_snapshots ==
    /\ ListPage("snapshots", "ec2.describe_snapshots", MaxPages, SnapshotPages(NextPageNo(pages), Listed(pages)))
    /\ UNCHANGED <<counts, purger>>

delete_snapshot ==
    /\ \E r \in DeleteResponses :
        /\ DeleteItem("snapshots", "item", "ec2.delete_snapshot", "Failed deleting snapshotId", r)
        /\ snapshot_count' = IF r.raised THEN snapshot_count ELSE Tally(snapshot_count, r.status)
    /\ UNCHANGED <<bucket_count, volume_count, zone_count>>
    /\ UNCHANGED purger

finish_snapshots ==
    /\ Finish("snapshots", "Snapshots deleted", snapshot_count)
    /\ snapshot_count' = 0
    /\ UNCHANGED <<bucket_count, volume_count, zone_count>>
    /\ UNCHANGED purger

(* get_and_delete_ebs_volumes, lines 83-101. *)
enter_ebs_volumes ==
    /\ Enter("volumes")
    /\ volume_count' = 0
    /\ UNCHANGED <<bucket_count, snapshot_count, zone_count>>
    /\ UNCHANGED purger

VolumePages(p, seen) == {ItemPage(p, n) : n \in 0..(MaxItems - seen)}

describe_volumes ==
    /\ ListPage("volumes", "ec2.describe_volumes", MaxPages, VolumePages(NextPageNo(pages), Listed(pages)))
    /\ UNCHANGED <<counts, purger>>

delete_volume ==
    /\ \E r \in DeleteResponses :
        /\ DeleteItem("volumes", "item", "ec2.delete_volume", "Failed deleting VolumeId", r)
        /\ volume_count' = IF r.raised THEN volume_count ELSE Tally(volume_count, r.status)
    /\ UNCHANGED <<bucket_count, snapshot_count, zone_count>>
    /\ UNCHANGED purger

finish_ebs_volumes ==
    /\ Finish("volumes", "EBS Volumes deleted", volume_count)
    /\ volume_count' = 0
    /\ UNCHANGED <<bucket_count, snapshot_count, zone_count>>
    /\ UNCHANGED purger

(***************************************************************************)
(* The zone cleaner: get_and_delete_route53_zones, lines 188-214, with the *)
(* record-set purge of get_and_delete_hostedzone_recordsets and            *)
(* create_and_submit_change_batch.                                         *)
(***************************************************************************)
enter_route53_zones ==
    /\ Enter("zones")
    /\ zone_count' = 0
    /\ zone' = NoZone
    /\ rr_more' = FALSE
    /\ rr_listed' = 0
    /\ rr_seen' = 0
    /\ rr_submitted' = 0
    /\ rr_failed' = 0
    /\ rr_deleted' = 0
    /\ record_set_page' = <<>>
    /\ change_batch' = <<>>
    /\ rr_out' = <<>>
    /\ UNCHANGED <<bucket_count, snapshot_count, volume_count>>

ZonePage(p, cs) ==
    [k \in 1..Len(cs) |-> [Id |-> <<p, k>>, ResourceRecordSetCount |-> cs[k]]]
ZonePages(p, seen) ==
    {ZonePage(p, cs) :
        cs \in UNION {[1..n -> RecordSetCounts] : n \in 0..(MaxZones - seen)}}

list_hosted_zones ==
    /\ ListPage("zones", "route53.list_hosted_zones", MaxZonePages, ZonePages(NextPageNo(pages), Listed(pages)))
    /\ UNCHANGED <<counts, purger>>

(* if zone['ResourceRecordSetCount'] > 2 *)
NeedsPurge_at_least(z) == z.ResourceRecordSetCount >= DefaultRecordSets
NeedsPurge(z) == z.ResourceRecordSetCount > DefaultRecordSets

(* The position after the record-count test of the zone loop, line 202. *)
ZoneStep(z) == IF NeedsPurge(z) THEN "rr_page" ELSE "delete"

(* The next zone of the page is taken: lines 198-203, up to the first cloud
   call made for it. *)
visit_zone ==
    /\ pc = At("item", "zones")
    /\ todo # <<>>
    /\ zone' = Head(todo)
    /\ pc' = At(ZoneStep(Head(todo)), "zones")
    /\ rr_more' = NeedsPurge(Head(todo))
    /\ rr_listed' = 0
    /\ rr_seen' = 0
    /\ rr_submitted' = 0
    /\ rr_failed' = 0
    /\ rr_deleted' = 0
    /\ record_set_page' = <<>>
    /\ change_batch' = <<>>
    /\ rr_out' = <<>>
    /\ UNCHANGED <<verbose, session, issued, lastCall, summaries, nonempty, counts, locals>>

(* if record_set['Type'] != 'NS' and record_set['Type'] != 'SOA' *)
Deletable_not_NS(record_set) == record_set.Type # "NS"
Deletable(record_set) == record_set.Type # "NS" /\ record_set.Type # "SOA"

(* change_batch['Changes'] built from one page, lines 158-169. *)
Changes_reversed(page) ==
    LET kept == SelectSeq(page, Deletable)
    IN  [k \in 1..Len(kept) |->
            [Action |-> "DELETE", ResourceRecordSet |-> kept[Len(kept) + 1 - k]]]
Changes(page) ==
    LET kept == SelectSeq(page, Deletable)
    IN  [k \in 1..Len(kept) |-> [Action |-> "DELETE", ResourceRecordSet |-> kept[k]]]

RecordPage(seen, ts) == [k \in 1..Len(ts) |-> [Name |-> seen + k, Type |-> ts[k]]]
RecordPages(seen) ==
    {RecordPage(seen, ts) :
        ts \in UNION {[1..n -> RecordTypes] : n \in 0..(MaxRecords - seen)}}

(* if change_batch['Changes']: the batch is submitted *)
Submits_always(batch) == TRUE
Submits(batch) == batch # <<>>

(* The next page of record sets of zone is listed (line 147) and its change
   batch is built (lines 158-169); an empty batch is not submitted and the
   page prints its count, lines 171 and 183. *)
list_resource_record_sets ==
    /\ pc = At("rr_page", "zones")
    /\ rr_more
    /\ rr_listed' = rr_listed + 1
    /\ \E r \in ListResponses :
        /\ Issue("route53.list_resource_record_sets", zone.Id \o <<rr_listed + 1>>, session, r)
        /\ IF r.raised
           THEN /\ pc' = Unhandled(pc)
                /\ UNCHANGED <<rr_more, rr_seen, record_set_page, change_batch, rr_out>>
           ELSE \E page \in RecordPages(rr_seen), m \in BOOLEAN :
                /\ m => rr_listed + 1 < MaxRecordPages
                /\ rr_more' = m
                /\ record_set_page' = page
                /\ rr_seen' = rr_seen + Len(page)
                /\ change_batch' = Changes(page)
                /\ IF Submits(Changes(page))
                   THEN /\ pc' = At("rr_submit", "zones")
                        /\ rr_out' = <<>>
                   ELSE /\ pc' = At("rr_page", "zones")
                        /\ rr_out' = <<Line("Records deleted", <<0>>)>>
    /\ UNCHANGED <<verbose, session, summaries, nonempty, counts, locals,
                   zone, rr_submitted, rr_failed, rr_deleted>>

(* record_count after the batch has been submitted and has returned status:
   record_count = 0, then record_count += len(change_batch['Changes']) on
   success, lines 158 and 178-181. *)
RecordCount_counts_failed(batch, status) == Len(batch)
RecordCount(batch, status) == IF Failed(status) THEN 0 ELSE Len(batch)

(* The batch is submitted and its response handled, lines 174-183. *)
change_resource_record_sets ==
    /\ pc = At("rr_submit", "zones")
    /\ rr_submitted' = rr_submitted + 1
    /\ \E r \in DeleteResponses :
        /\ Issue("route53.change_resource_record_sets", zone.Id \o <<rr_listed>>, session, r)
        /\ IF r.raised
           THEN /\ pc' = Unhandled(pc)
                /\ UNCHANGED <<rr_out, rr_failed, rr_deleted>>
           ELSE /\ pc' = At("rr_page", "zones")
                /\ rr_failed' = IF Failed(r.status) THEN rr_failed + 1 ELSE rr_failed
                /\ rr_deleted' = rr_deleted + RecordCount(change_batch, r.status)
                /\ rr_out' =
                     (IF Failed(r.status)
                      THEN <<Line("Failed deleting record set batch", change_batch)>>
                      ELSE <<>>)
                     \o <<Line("Records deleted",
                               <<RecordCount(change_batch, r.status)>>)>>
    /\ UNCHANGED <<verbose, session, summaries, nonempty, counts, locals,
                   zone, rr_more, rr_listed, rr_seen, record_set_page, change_batch>>

(* The record-set listing is exhausted: get_and_delete_hostedzone_recordsets
   returns to line 205. *)
finish_recordsets ==
    /\ pc = At("rr_page", "zones")
    /\ Exhausted(rr_more)
    /\ pc' = At(AfterPurge(rr_failed), "zones")
    /\ UNCHANGED <<verbose, session, issued, lastCall, summaries, nonempty, counts, locals, purger>>

delete_hosted_zone ==
    /\ \E r \in DeleteResponses :
        /\ DeleteItem("zones", "delete", "route53.delete_hosted_zone", "Failed deleting zone", r)
        /\ zone_count' = IF r.raised THEN zone_count ELSE Tally(zone_count, r.status)
    /\ UNCHANGED <<bucket_count, snapshot_count, volume_count>>
    /\ UNCHANGED purger

finish_route53_zones ==
    /\ Finish("zones", "Zones deleted", zone_count)
    /\ zone_count' = 0
    /\ UNCHANGED <<bucket_count, snapshot_count, volume_count>>
    /\ UNCHANGED purger

Next ==
    \/ get_caller_identity
    \/ skip_caller_identity
    \/ assume_role
    \/ enter_s3_buckets
    \/ list_buckets
    \/ delete_bucket
    \/ finish_s3_buckets
    \/ enter_snapshots
    \/ describe_snapshots
    \/ delete_snapshot
    \/ finish_snapshots
    \/ enter_ebs_volumes
    \/ describe_volumes
    \/ delete_volume
    \/ finish_ebs_volumes
    \/ enter_route53_zones
    \/ list_hosted_zones
    \/ visit_zone
    \/ list_resource_record_sets
    \/ change_resource_record_sets
    \/ finish_recordsets
    \/ delete_hosted_zone
    \/ finish_route53_zones

Spec == Init /\ [][Next]_vars

(* The script is one sequential process: as long as it has a next statement
   it executes it, every cloud call returning or raising. *)
FairSpec == Init /\ [][Next]_vars /\ WF_vars(Next)

(***************************************************************************)
(* Properties.                                                             *)
(***************************************************************************)
Last(q) == q[Len(q)]
Targets(log) == [i \in 1..Len(log) |-> log[i].target]
RECURSIVE Flatten(_)
Flatten(ps) == IF ps = <<>> THEN <<>> ELSE Head(ps) \o Flatten(Tail(ps))

(* The delete calls of a log that returned the success status. *)
Successes(log) ==
    Cardinality({i \in 1..Len(log) : ~log[i].raised /\ log[i].status = 200})

(* The cleaner whose invocation is in progress, also when a call of it has
   just ended the run; "none" between invocations. *)
Running ==
    IF pc.cleaner \in Cleaners /\ pc.stage # "entry" THEN pc.cleaner
    ELSE IF pc = Aborted /\ lastCall.api \in ResourceApis THEN FamilyOf(lastCall.api)
    ELSE "none"

CountOf(c) ==
    CASE c = "s3" -> bucket_count
      [] c = "snapshots" -> snapshot_count
      [] c = "volumes" -> volume_count
      [] c = "zones" -> zone_count

(* A step that issues a delete call of the running cleaner. *)
DeleteIssued == deletes' # deletes /\ deletes' # <<>>

(* C1: during the invocation of a cleaner its tally equals the number of
   delete calls made so far in the invocation that returned success: it is 0
   at entry, a delete call that returns success adds exactly 1, a delete call
   that fails leaves it unchanged, and no step of the invocation lowers it. *)
C1_TallyCountsSuccesses ==
    /\ [](\A c \in Cleaners : Running = c => CountOf(c) = Successes(deletes))
    /\ [][\A c \in Cleaners :
            /\ (pc = EntryOf(c) /\ pc' # pc) => (CountOf(c)' = 0 /\ deletes' = <<>>)
            /\ (Running = c /\ Running' = c) =>
                 /\ CountOf(c)' >= CountOf(c)
                 /\ CountOf(c)' =
                      IF DeleteIssued /\ ~Last(deletes').raised
                                      /\ Last(deletes').status = 200
                      THEN CountOf(c) + 1
                      ELSE CountOf(c)]_vars

C1_Witness ==
    /\ Running = "volumes"
    /\ Len(deletes) = 2
    /\ ~deletes[1].raised /\ deletes[1].status = 500
    /\ ~deletes[2].raised /\ deletes[2].status = 200
    /\ volume_count = 1

(* The order of the calls stated by the design. *)
StatedOrder == <<"caller_identity", "assume_role", "s3", "snapshots", "volumes", "zones">>
Rank(f) == CHOOSE i \in 1..Len(StatedOrder) : StatedOrder[i] = f

(* C2: every cloud call is issued when no call of a later part of the order
   AssumeRole, buckets, snapshots, volumes, hosted zones has been issued, and
   a call of a cleaner is issued only after AssumeRole has returned. *)
C2_FixedCallOrder ==
    lastCall.api # "none" =>
        /\ \A f \in issued : Rank(f) <= Rank(FamilyOf(lastCall.api))
        /\ lastCall.api \in ResourceApis =>
              /\ "assume_role" \in issued
              /\ session = RoleSessionName

C2_Witness ==
    /\ lastCall.api = "route53.delete_hosted_zone"
    /\ issued = {"assume_role", "s3", "snapshots", "volumes", "zones"}
    /\ pc = Done

(* The AssumeRole call has been made and has not returned a session. *)
AssumeRoleFailed == "assume_role" \in issued /\ session = "none"

(* C3: once the AssumeRole call has failed the run is over and no call of any
   cleaner has been or is issued: the failed AssumeRole call stays the last
   call of the run. *)
C3_AssumeRoleFailureAborts ==
    AssumeRoleFailed =>
        /\ pc = Aborted
        /\ lastCall.api = "sts.assume_role" /\ lastCall.raised
        /\ issued \cap Cleaners = {}
        /\ deletes = <<>> /\ pages = <<>> /\ rr_listed = 0 /\ rr_submitted = 0

C3_Witness ==
    /\ lastCall.api = "sts.assume_role"
    /\ lastCall.raised
    /\ pc = Aborted

(* The listing call of each cleaner. *)
ListingOf(c) ==
    CASE c = "s3" -> "s3.list_buckets"
      [] c = "snapshots" -> "ec2.describe_snapshots"
      [] c = "volumes" -> "ec2.describe_volumes"
      [] c = "zones" -> "route53.list_hosted_zones"

(* The cleaners the stated order puts after cleaner c. *)
LaterCleaners(c) == {d \in Cleaners : Rank(d) > Rank(c)}

(* C4, as stated: after a listing call of one resource type has raised, the
   run is not over: the orchestrator goes on with the cleaners of the later
   types (and is done when the type was the last one). *)
C4_ListingErrorIsolated ==
    \A c \in Cleaners :
        (lastCall.api = ListingOf(c) /\ lastCall.raised) =>
            /\ pc # Aborted
            /\ pc = Done \/ pc.cleaner \in LaterCleaners(c)

(* C4, amended: a listing call that raises is not caught.  It ends that
   type's cleanup without a summary line and it ends the run: no cleaner of
   a later resource type has made or makes a call, and the run takes no
   further step. *)
C4_ListingErrorEndsRun ==
    /\ [](\A c \in Cleaners :
            (lastCall.api = ListingOf(c) /\ lastCall.raised) =>
                /\ pc = Aborted
                /\ summaries[c] = 0
                /\ \A d \in LaterCleaners(c) : d \notin issued /\ summaries[d] = 0)
    /\ [][pc # Aborted]_vars

C4_Witness ==
    /\ lastCall.api = "ec2.describe_snapshots"
    /\ lastCall.raised
    /\ pc = Aborted
    /\ summaries["s3"] = 1
    /\ "volumes" \notin issued

(* The last delete call of the running cleaner is the last call of the run. *)
DeleteIsLastCall == deletes # <<>> /\ Last(deletes) = lastCall

(* The failure lines printed by the running cleaner that name item id. *)
FailureLines(id) ==
    {i \in 1..Len(out) :
        /\ out[i].text \in {"Failed deleting S3 Bucket", "Failed deleting snapshotId",
                            "Failed deleting VolumeId", "Failed deleting zone"}
        /\ out[i].arg = id}

(* C5, as stated: a delete call that raises does not end the cleaner; the
   item is reported as failed and the cleaner goes on. *)
C5_TransportErrorIsFailed ==
    (DeleteIsLastCall /\ lastCall.raised) =>
        /\ pc # Aborted
        /\ FailureLines(lastCall.target) # {}

(* C5, amended: a delete call that returns a non-success status is classified
   as failed: a failure line names the item, the tally does not count it and
   the cleaner goes on after the item.  A delete call that raises is not
   caught: no failure line is printed for the item and the exception ends the
   cleaner and the run. *)
C5_OnlyStatusFailuresAreTolerated ==
    DeleteIsLastCall =>
        IF lastCall.raised
        THEN /\ pc = Aborted
             /\ FailureLines(lastCall.target) = {}
             /\ summaries[FamilyOf(lastCall.api)] = 0
        ELSE /\ pc # Aborted
             /\ (todo # <<>> => Head(todo).Id # lastCall.target)
             /\ lastCall.status # 200 =>
                  /\ Cardinality(FailureLines(lastCall.target)) = 1
                  /\ Len(deletes) > Successes(deletes)

C5_Witness ==
    /\ DeleteIsLastCall
    /\ lastCall.api = "ec2.delete_snapshot"
    /\ lastCall.raised
    /\ pc = Aborted
    /\ Len(todo) = 2

(* C6: the delete calls of a cleaner are, in order, one call for each item of
   the pages listed so far, whatever the earlier calls returned: every listed
   item has had its one delete call or is still to be visited, and when the
   cleaner has printed its summary every item of every page has had exactly
   one. *)
SummaryPrinted == out # <<>> /\
                  Last(out).text \in {"S3 Buckets deleted", "Snapshots deleted",
                                      "EBS Volumes deleted", "Zones deleted"}

C6_OneDeletePerListedItem ==
    /\ Len(deletes) <= Listed(pages)
    /\ Targets(deletes) = SubSeq(Flatten(pages), 1, Len(deletes))
    /\ pc # Aborted =>
          /\ Len(deletes) + Len(todo) = Listed(pages)
          /\ \A i \in 1..Len(deletes) : ~deletes[i].raised
    /\ SummaryPrinted => Targets(deletes) = Flatten(pages)

C6_Witness ==
    /\ SummaryPrinted
    /\ Last(out).text = "Snapshots deleted"
    /\ Len(pages) = 2
    /\ Len(deletes) = 2
    /\ deletes[1].status = 500
    /\ Targets(deletes) = <<<<1, 1>>, <<2, 1>>>>

PurgeApis == {"route53.list_resource_record_sets", "route53.change_resource_record_sets"}

(* The zone delete call has been issued for the zone being visited. *)
ZoneDeleteIssued == zone # NoZone /\ deletes # <<>> /\ Last(deletes).target = zone.Id

(* The zone a call of the purge is made for. *)
ZoneOf(call) == SubSeq(call.target, 1, 2)

(* C7: a list-record-sets or change-batch call is made for the visited zone
   only if its reported record-set count is greater than 2, and a zone with a
   greater count has its record sets listed before its delete call: a zone
   with count 2 or less goes from the count test to the zone delete call. *)
C7_PurgeIffCountAboveTwo ==
    /\ (rr_listed > 0 \/ rr_submitted > 0 \/ pc.stage \in {"rr_page", "rr_submit"})
          => zone.ResourceRecordSetCount > 2
    /\ lastCall.api \in PurgeApis
          => ZoneOf(lastCall) = zone.Id /\ zone.ResourceRecordSetCount > 2
    /\ ((pc = At("delete", "zones") \/ ZoneDeleteIssued) /\ zone.ResourceRecordSetCount > 2)
          => rr_listed > 0
    /\ (zone # NoZone /\ zone.ResourceRecordSetCount <= 2 /\ pc.cleaner = "zones"
          /\ ~ZoneDeleteIssued)
          => pc = At("delete", "zones")

C7_Witness ==
    /\ ZoneDeleteIssued
    /\ lastCall.api = "route53.delete_hosted_zone"
    /\ zone.ResourceRecordSetCount = 2
    /\ rr_listed = 0
    /\ Len(deletes) = 2

(* C8: the change batch built from a record-set page, and so the batch a
   change call submits, has no entry of a record set of type NS or SOA. *)
C8_NoProtectedRecordInBatch ==
    \A i \in 1..Len(change_batch) :
        change_batch[i].ResourceRecordSet.Type \notin {"NS", "SOA"}

C8_Witness ==
    /\ lastCall.api = "route53.change_resource_record_sets"
    /\ \E i \in 1..Len(record_set_page) : record_set_page[i].Type = "SOA"
    /\ Len(change_batch) = 1
    /\ Len(record_set_page) = 2

(* C9: no list-record-sets or change-batch call is made for a zone whose
   delete call has been issued, and the delete call of a purged zone is
   issued only when the record-set listing of the zone is exhausted and the
   batch of its last page has been handled (submitted, unless empty). *)
C9_PurgeCompletesBeforeZoneDelete ==
    /\ lastCall.api \in PurgeApis =>
          \A i \in 1..Len(deletes) : deletes[i].target # ZoneOf(lastCall)
    /\ ((pc = At("delete", "zones") \/ ZoneDeleteIssued) /\ rr_listed > 0) =>
          /\ ~rr_more
          /\ rr_out # <<>>
          /\ Submits(change_batch) => rr_submitted > 0

C9_Witness ==
    /\ ZoneDeleteIssued
    /\ lastCall.api = "route53.delete_hosted_zone"
    /\ rr_listed = 2
    /\ rr_submitted = 2

(* C10: every visited zone has its delete call issued before the loop goes
   on, whether its batches returned success, returned a failure status or
   were never submitted, so that a finished zone cleaner has issued one
   delete call per listed zone; and the zone tally counts the zone delete
   calls that returned success, whatever the batches returned. *)
C10_ZoneDeleteIndependentOfPurge ==
    /\ (pc.cleaner = "zones" /\ pc.stage \in {"item", "page"} /\ zone # NoZone)
          => ZoneDeleteIssued
    /\ (SummaryPrinted /\ Last(out).text = "Zones deleted") =>
          /\ Targets(deletes) = Flatten(pages)
          /\ Last(out).arg = <<Successes(deletes)>>
    /\ Running = "zones" => zone_count = Successes(deletes)

C10_Witness ==
    /\ ZoneDeleteIssued
    /\ lastCall.api = "route53.delete_hosted_zone"
    /\ rr_failed = 1
    /\ rr_deleted = 0
    /\ lastCall.status = 200
    /\ zone_count = 1

(* A step that issues a page request of the running cleaner. *)
PageRequested == fetched' # fetched /\ fetched' # <<>>

(* C11: the page requests of a cleaner are the pages 1, 2, ... in order, each
   once; every returned page is the one requested; a page is requested only
   while the listing has signalled a next page; and when the listing of N
   pages is exhausted the cleaner has requested exactly the pages 1..N and
   ends with its summary. *)
C11_EachPageVisitedOnce ==
    /\ [](/\ fetched = [i \in 1..Len(fetched) |-> i]
          /\ Len(pages) <= Len(fetched) /\ Len(fetched) <= Len(pages) + 1
          /\ \A i \in 1..Len(pages) : \A k \in 1..Len(pages[i]) : pages[i][k][1] = i
          /\ pc # Aborted => Len(fetched) = Len(pages)
          /\ SummaryPrinted => (~more /\ Len(fetched) = Len(pages) /\ todo = <<>>))
    /\ [][PageRequested => (more /\ Len(fetched') = Len(fetched) + 1)]_vars
    /\ [][(more /\ ~more') => Len(pages') = Len(fetched')]_vars
    /\ [][(~more /\ Running # "none" /\ pc # Aborted /\ fetched' # <<>>)
             => fetched' = fetched]_vars

C11_Witness ==
    /\ SummaryPrinted
    /\ Last(out).text = "EBS Volumes deleted"
    /\ fetched = <<1, 2>>
    /\ Len(pages) = 2
    /\ Len(deletes) = 2

(* C12: in a run whose listings have returned no bucket, snapshot, volume or
   hosted zone, no delete call and no record-set call is issued, every tally
   stays 0 and every summary printed reports 0; the run ends early only when
   a cloud call raises, and a run that is done has printed the summary of
   each of the four cleaners. *)
C12_EmptyAccountYieldsZeroTallies ==
    [](~nonempty =>
        /\ lastCall.api \in {"none", "sts.get_caller_identity", "sts.assume_role",
                             "s3.list_buckets", "ec2.describe_snapshots",
                             "ec2.describe_volumes", "route53.list_hosted_zones"}
        /\ deletes = <<>>
        /\ rr_listed = 0 /\ rr_submitted = 0
        /\ bucket_count = 0 /\ snapshot_count = 0 /\ volume_count = 0 /\ zone_count = 0
        /\ SummaryPrinted => (Len(out) = 1 /\ Last(out).arg = <<0>>)
        /\ pc = Aborted => lastCall.raised
        /\ pc = Done => \A c \in Cleaners : summaries[c] = 1)

C12_Witness ==
    /\ ~nonempty
    /\ pc = Done
    /\ out = <<Line("Zones deleted", <<0>>)>>
    /\ fetched = <<1, 2>>

RunOver == pc = Done \/ pc = Aborted

(* C13, as stated: a run in which the role was assumed has, when it is over,
   printed exactly one summary line for each of the four cleaners. *)
C13_AlwaysAllTallyLines ==
    (session = RoleSessionName /\ RunOver) => \A c \in Cleaners : summaries[c] = 1

(* C13, amended: a run in which the role was assumed terminates.  No cleaner
   prints more than one summary line; a run in which no cloud call raises
   ends having printed exactly one summary line for each of the four
   cleaners, also when delete calls or change batches returned a failure
   status; a run in which a cloud call raises ends at that call, having
   printed the summary lines of the cleaners before the one that made the
   call and no other. *)
C13_TallyLinePerTypeUnlessRaised ==
    /\ [](/\ \A c \in Cleaners : summaries[c] <= 1
          /\ pc = Done => \A c \in Cleaners : summaries[c] = 1
          /\ pc = Aborted => lastCall.raised
          /\ (pc = Aborted /\ lastCall.api \in ResourceApis) =>
                \A c \in Cleaners :
                    summaries[c] = IF Rank(c) < Rank(FamilyOf(lastCall.api)) THEN 1 ELSE 0)
    /\ [][pc = Done => FALSE]_vars
    /\ (session = RoleSessionName) ~> RunOver

C13_Witness ==
    /\ pc = Done
    /\ \A c \in Cleaners : summaries[c] = 1
    /\ rr_failed = 1
    /\ Len(deletes) = 2
    /\ deletes[1].status = 500
    /\ out[Len(out)] = Line("Zones deleted", <<1>>)

(***************************************************************************)
(* C14: the count reported by the purger of one zone.                      *)
(***************************************************************************)
ChangeApi == "route53.change_resource_record_sets"
RecordSetApi == "route53.list_resource_record_sets"
PurgeReturned == pc = At("delete", "zones") /\ rr_listed > 0

(* C14, as stated: when the purge of a zone has returned, the count it has
   reported is the sum over the zone's pages of the entries of the batches
   that were submitted with success. *)
C14_ReportsSumOverPages ==
    PurgeReturned =>
        /\ rr_out # <<>>
        /\ Last(rr_out) = Line("Records deleted", <<rr_deleted>>)

(* C14, amended: the purger returns nothing and prints one count for each
   page, not one for the zone: the number of entries of that page's batch
   when its submission returned success, and zero when it returned a
   failure status (after a line with the failing batch) or when the batch
   was empty.  A batch that returned a failure status does not end the
   purge: the pages after it are still listed and submitted. *)
C14_CountIsReportedPerPage ==
    [](/\ (lastCall.api = ChangeApi /\ ~lastCall.raised /\ lastCall.status = 200) =>
               rr_out = <<Line("Records deleted", <<Len(change_batch)>>)>>
       /\ (lastCall.api = ChangeApi /\ ~lastCall.raised /\ lastCall.status # 200) =>
               /\ rr_out = <<Line("Failed deleting record set batch", change_batch),
                             Line("Records deleted", <<0>>)>>
               /\ pc # Aborted
               /\ rr_more => pc = At("rr_page", "zones")
       /\ (lastCall.api = RecordSetApi /\ ~lastCall.raised /\ change_batch = <<>>) =>
               rr_out = <<Line("Records deleted", <<0>>)>>
       /\ rr_deleted <= rr_seen
       /\ rr_failed <= rr_submitted
       /\ PurgeReturned => ~rr_more)

C14_Witness ==
    /\ PurgeReturned
    /\ rr_listed = 2
    /\ rr_submitted = 2
    /\ rr_failed = 1
    /\ lastCall.api = ChangeApi
    /\ lastCall.status = 200
    /\ rr_deleted = 1
    /\ rr_out = <<Line("Records deleted", <<1>>)>>

(***************************************************************************)
(* C15: the change batch of a page.                                        *)
(***************************************************************************)
RECURSIVE DeleteEntries(_)
DeleteEntries(page) ==
    IF page = <<>> THEN <<>>
    ELSE (IF Head(page).Type \in {"NS", "SOA"}
          THEN <<>>
          ELSE <<[Action |-> "DELETE", ResourceRecordSet |-> Head(page)]>>)
         \o DeleteEntries(Tail(page))

ScenarioPage == RecordPage(0, <<"NS", "SOA", "A", "A", "A">>)
ScenarioBatch == Changes(ScenarioPage)
ScenarioDeletes ==
    [k \in 1..3 |-> [Action |-> "DELETE", ResourceRecordSet |-> ScenarioPage[k + 2]]]

(* C15: the batch built from a page holds one DELETE entry for each record
   set of the page that is neither NS nor SOA, in the order of the page, and
   nothing else; no more change requests have been submitted than pages
   listed, and a batch waiting to be submitted is that of a page that has had
   no change request yet.  The page of 1 NS, 1 SOA and 3 A records gives a
   batch of exactly the 3 DELETE entries of the A records. *)
C15_BatchIsDeletesOfPage ==
    [](/\ change_batch = DeleteEntries(record_set_page)
       /\ rr_submitted <= rr_listed
       /\ pc = At("rr_submit", "zones") => rr_submitted < rr_listed
       /\ lastCall.api = ChangeApi => lastCall.target = zone.Id \o <<rr_listed>>
       /\ Len(ScenarioBatch) = 3
       /\ ScenarioBatch = ScenarioDeletes)

C15_Witness ==
    /\ Len(record_set_page) = 2
    /\ record_set_page[1].Type = "A"
    /\ record_set_page[2].Type = "A"
    /\ Len(change_batch) = 2
    /\ lastCall.api = ChangeApi
    /\ rr_submitted = 1
    /\ rr_listed = 1

(***************************************************************************)
(* C16: an empty batch is not submitted.                                   *)
(***************************************************************************)
AllProtected(page) == \A k \in 1..Len(page) : page[k].Type \in {"NS", "SOA"}

(* C16: a page whose record sets are all NS or SOA, or that is empty, gives an
   empty batch and no change call; a change call is due or has been issued
   only with a batch that is not empty. *)
C16_EmptyBatchNotSubmitted ==
    [](/\ AllProtected(record_set_page) =>
               /\ change_batch = <<>>
               /\ pc # At("rr_submit", "zones")
               /\ lastCall.api # ChangeApi
       /\ (pc = At("rr_submit", "zones") \/ lastCall.api = ChangeApi) =>
               /\ change_batch # <<>>
               /\ ~AllProtected(record_set_page)
       /\ rr_submitted > 0 => rr_seen > 0)

C16_Witness ==
    /\ lastCall.api = RecordSetApi
    /\ ~lastCall.raised
    /\ Len(record_set_page) = 1
    /\ AllProtected(record_set_page)
    /\ rr_listed = 2
    /\ rr_submitted = 1
    /\ pc = At("rr_page", "zones")
    /\ rr_out = <<Line("Records deleted", <<0>>)>>

(***************************************************************************)
(* C17: the credentials of the run.                                        *)
(***************************************************************************)
AssumeRoleIssued == "assume_role" \in issued

(* C17, as stated: AssumeRole is issued before every other cloud call: once
   any call has been issued, AssumeRole has been. *)
C17_AssumeRoleIsFirstCall ==
    issued # {} => AssumeRoleIssued

(* C17, amended: AssumeRole is issued at most once in a run, exactly once in
   a run that reaches a cleaner, and before every call of a cleaner; with
   --verbose it is preceded by one GetCallerIdentity call, and both are made
   with the session of the profile.  The session built from its response is
   never replaced or modified afterwards and every call of every cleaner is
   made with it. *)
C17_OneScopedSessionForAllCleaners ==
    /\ [](/\ (issued \cap Cleaners # {}) => (AssumeRoleIssued /\ session = RoleSessionName)
          /\ "caller_identity" \in issued => verbose
          /\ (verbose /\ AssumeRoleIssued) => "caller_identity" \in issued
          /\ pc \in {Start, Assume} => ~AssumeRoleIssued
          /\ lastCall.api \in ResourceApis => lastCall.session = RoleSessionName
          /\ lastCall.api \in {"sts.get_caller_identity", "sts.assume_role"} =>
                /\ lastCall.session = InitialProfile
                /\ issued \cap Cleaners = {}
          /\ \A i \in 1..Len(deletes) : deletes[i].session = RoleSessionName
          /\ session = RoleSessionName =>
                AssumeRoleIssued /\ ~(lastCall.api = "sts.assume_role" /\ lastCall.raised)
          /\ pc = Done => AssumeRoleIssued)
    /\ [][/\ session = RoleSessionName => session' = session
          /\ AssumeRoleIssued => (lastCall' # lastCall => lastCall'.api # "sts.assume_role")
          /\ AssumeRoleIssued => pc' # Assume]_vars

C17_Witness ==
    /\ verbose
    /\ pc = Done
    /\ issued = {"caller_identity", "assume_role"} \cup Cleaners
    /\ session = RoleSessionName
    /\ lastCall.api = "route53.delete_hosted_zone"
    /\ lastCall.session = RoleSessionName

(***************************************************************************)
(* C18: failure lines.                                                     *)
(***************************************************************************)
AllFailureLines ==
    {i \in 1..Len(out) :
        out[i].text \in {"Failed deleting S3 Bucket", "Failed deleting snapshotId",
                         "Failed deleting VolumeId", "Failed deleting zone"}}

(* C18: in the output of a cleaner a delete call that returned a failure
   status has exactly one failure line that names its item, and a delete call
   that returned success has none; every failure line names the item of such
   a call.  When the cleaner has printed its summary line, the number of
   failure lines plus the tally of that line is the number of delete calls
   issued. *)
C18_OneFailureLinePerFailedDelete ==
    [](/\ \A i \in 1..Len(deletes) :
             ~deletes[i].raised =>
                 Cardinality(FailureLines(deletes[i].target)) =
                     IF deletes[i].status = 200 THEN 0 ELSE 1
       /\ \A j \in AllFailureLines :
             \E i \in 1..Len(deletes) :
                 /\ deletes[i].target = out[j].arg
                 /\ ~deletes[i].raised
                 /\ deletes[i].status # 200
       /\ SummaryPrinted =>
             /\ AllFailureLines = 1..(Len(out) - 1)
             /\ Cardinality(AllFailureLines) + Last(out).arg[1] = Len(deletes))

C18_Witness ==
    /\ Len(deletes) = 2
    /\ deletes[1].status = 200
    /\ deletes[2].status = 500
    /\ ~deletes[1].raised
    /\ ~deletes[2].raised
    /\ out = <<Line("Failed deleting S3 Bucket", deletes[2].target),
               Line("S3 Buckets deleted", <<1>>)>>

====
